---- MODULE Spec2Model ----
(***************************************************************************)
(* Debounced GPIO inputs of esp32-fun.                                     *)
(*                                                                         *)
(* Two programs live in the repository and both are modelled here:         *)
(*                                                                         *)
(*  - the InputManager of src/src/inputs.rs (the same code, minus the      *)
(*    event loop, is src/esp-inputs/src/lib.rs) with the interrupt queue   *)
(*    of src/src/irq.rs.  Specification: Spec (FairSpec adds the           *)
(*    scheduling of the poll context).  SpecFlood lets the queue fill up,  *)
(*    SpecSamples records the samples of each debounce(), SpecRegister     *)
(*    runs register_input on an empty manager, SpecOwn has no callback     *)
(*    but those the manager subscribes itself.                             *)
(*  - the single InputSwitch polled by the loop of src/src/main.rs, with   *)
(*    its own queue.  Specification: SpecSwitch.                           *)
(*                                                                         *)
(* Each specification leaves the other program's variables untouched.      *)
(***************************************************************************)
EXTENDS Naturals, Integers, Sequences, FiniteSets, TLC

(***************************************************************************)
(* Program constants.                                                      *)
(***************************************************************************)
\* src/src/inputs.rs:17    const SAMPLES: usize = 5;
SAMPLES == 5
\* src/src/irq.rs:3        const IRQ_CAPACITY: usize = 8;
IRQ_CAPACITY == 8
\* src/src/main.rs:18      static mut Q: Queue<i32, 4>
MAIN_Q_SIZE == 4
\* src/src/main.rs:68      states: [bool; 10]
STATES_LEN == 10

(***************************************************************************)
(* Bounds of the model.                                                    *)
(***************************************************************************)
\* The history counter of the samples one debounce() call counted saturates
\* here.
MaxReads == 6
\* eval()'s `dequeued` counter (used for a log line only) saturates here.
MaxDequeued == 2
\* In Spec, the notifications of foreign callbacks waiting in the queue.
MaxForeign == 1
\* The history counter of the tick() calls of one Input in one pass saturates
\* here.
MaxTicks == 2

Levels == {"High", "Low"}

\* The pin ids of the model.  5 and 6 are the pins of the spec's scenarios.
PinIds == {5, 6, 7}

\* Pin ids for which a callback made by the public InterruptHandler::register
\* exists outside the manager's own registrations (irq.rs: register and Q are
\* pub): such a callback enqueues its id whether or not an Input listens to it.
ForeignPins == {7}

\* A slot of the registry that holds no Input.
NoInput == [reg |-> FALSE, mode |-> "Switch", has_interrupts |-> FALSE,
            state |-> "Low", dirty |-> FALSE]

\* The value of a queue cell that holds no element (moved out or never written).
Empty == 0

\* No event (Option::None).
None == [pin |-> 0, event |-> "None"]

VARIABLES
  \* ---- InputManager (inputs.rs) ----
  inputs,      \* InputManager.inputs: pin id -> Input (NoInput when absent)
  event_loop,  \* InputManager.event_loop is Some
  armed,       \* hardware: the pin's edge interrupt is enabled
  qbuf,        \* irq.rs Q: the cells of the ring
  qhead,       \* irq.rs Q: consumer index
  qtail,       \* irq.rs Q: producer index
  pc,          \* position of the poll context: idle, drain, debounce, tick, aborted
  cur,         \* the pin whose handle_interrupt is running (0: none)
  level,       \* debounce(): let mut level
  count,       \* debounce(): let mut count
  dequeued,    \* eval(): let mut dequeued (saturating)
  toTick,      \* eval(): the inputs iter_mut() has not yet visited
  panicked,    \* which unwrap() ended the process ("no": none)
  foreignCap,  \* environment: foreign notifications that may wait in the queue
  \* ---- history variables of the manager ----
  enqLog,      \* ids enqueued with success and not yet dequeued
  fifoOK,      \* every dequeue() so far returned the head of enqLog
  pending,     \* entries present at the start of the pass, not yet dequeued
  drained,     \* the ids dequeued in this pass
  produced,    \* what the tick() of the last TickStep returned
  published,   \* what reached the event loop in that step
  reported,    \* pin -> level of its last event (at first: the registered level)
  dbReads,     \* samples counted by the running debounce() (saturating)
  dbConst,     \* the samples read by the running debounce() were all equal
  ticks,       \* pin -> calls of its tick() in the running pass (saturating)
  runCap,      \* where dbRun saturates (0: the samples are not recorded)
  dbLast,      \* the sample the running debounce() counted last
  dbRun,       \* length of the run of equal counted samples ending with dbLast
  mixed,       \* pins whose last debounce() ended on a run shorter than SAMPLES
  \* ---- register_input ----
  ret,         \* what the last register_input returned: none, Ok, Err
  retPin,      \* the pin id of that call (0: none)
  \* ---- main.rs: the InputSwitch, its queue and the loop of main ----
  sw,          \* InputSwitch: [state, dirty, states]
  sw_armed,    \* hardware: the switch pin's edge interrupt is enabled
  mq_buf,      \* main.rs Q: the cells of the ring
  mq_head,     \* main.rs Q: consumer index
  mq_tail,     \* main.rs Q: producer index
  mpc,         \* position of main's loop: dequeue, tick, sleep, aborted
  \* ---- history variables of main.rs ----
  sampled,     \* the last InputSwitch::tick read a sample
  changed,     \* what the last InputSwitch::tick returned
  prevState,   \* sw.state before the last InputSwitch::tick
  swLast,      \* the last sample read
  swRun,       \* length of the run of equal samples ending with swLast (saturating)
  everRun,     \* some STATES_LEN samples read in a row were equal
  swRaw,       \* the raw level of the switch's line when InputSwitch::new ran
  swHandled    \* main's loop has handled a notification

mvars == <<inputs, event_loop, armed, qbuf, qhead, qtail, pc, cur, level, count,
           dequeued, toTick, panicked, foreignCap>>
hvars == <<enqLog, fifoOK, pending, drained, produced, published, reported,
           dbReads, dbConst>>
gvars == <<ticks, runCap, dbLast, dbRun, mixed>>
rvars == <<ret, retPin>>
svars == <<sw, sw_armed, mq_buf, mq_head, mq_tail, mpc, sampled, changed,
           prevState, swLast, swRun, everRun, swRaw, swHandled>>
vars == <<mvars, hvars, gvars, rvars, svars>>

(***************************************************************************)
(* Helpers.                                                                *)
(***************************************************************************)
Min(a, b) == IF a < b THEN a ELSE b

\* A wrong reading of InputOf, kept for comparison: the lookup never misses.
InputOfFirst(p) == inputs[5]

\* HashMap lookup that misses for an id outside the map (contains_key).
InputOf(p) == IF p \in PinIds THEN inputs[p] ELSE NoInput

Registered == {p \in PinIds : inputs[p].reg}

(***************************************************************************)
(* The interrupt queue: heapless::spsc::Queue<i32, IRQ_CAPACITY>, a ring   *)
(* of IRQ_CAPACITY cells of which one stays free.                          *)
(***************************************************************************)
Cells == 0..(IRQ_CAPACITY - 1)

Inc(i) == (i + 1) % IRQ_CAPACITY

QLen == (qtail + IRQ_CAPACITY - qhead) % IRQ_CAPACITY

\* The queue's elements, oldest first.
QContents == [k \in 1..QLen |-> qbuf[(qhead + k - 1) % IRQ_CAPACITY]]

\* A wrong reading of QFull, kept for comparison: the producer never finds the queue full.
QFullNever == FALSE

\* Producer::enqueue fails when the cell after the tail is the head.
QFull == Inc(qtail) = qhead

\* Consumer::dequeue returns None when head = tail.
QIsEmpty == qhead = qtail

\* A wrong reading of Dequeued, kept for comparison: the newest element, the one before the tail.
DequeuedNewest == qbuf[(qtail + IRQ_CAPACITY - 1) % IRQ_CAPACITY]

\* The element Consumer::dequeue hands out: the oldest, at the head.
Dequeued == qbuf[qhead]

\* The callback InterruptHandler::register returns, run for pin p:
\*     producer.enqueue(pin).ok().unwrap();
\* A full queue makes enqueue return Err, ok() None and unwrap() panic.
Callback(p) ==
  IF ~QFull
    THEN /\ qbuf' = [qbuf EXCEPT ![qtail] = p]
         /\ qtail' = Inc(qtail)
         /\ enqLog' = Append(enqLog, p)
         /\ UNCHANGED <<pc, panicked>>
    ELSE /\ panicked' = "enqueue"
         /\ pc' = "aborted"
         /\ UNCHANGED <<qbuf, qtail, enqLog>>

\* Foreign notifications waiting in the queue.
ForeignWaiting == Cardinality({i \in Cells : qbuf[i] \in ForeignPins})

(***************************************************************************)
(* Input.                                                                  *)
(***************************************************************************)
\* Input::new, then with_interrupts when asked for: the Input register_input
\* inserts.  l is the level get_level() returned.
NewInput(mode, with_interrupts, l) ==
  [reg |-> TRUE, mode |-> mode, has_interrupts |-> with_interrupts,
   state |-> l, dirty |-> FALSE]

\* A wrong reading of input_event, kept for comparison: the arms of the two modes exchanged.
input_event_swapped(mode, state) ==
  IF mode = "Button"
    THEN (IF state = "High" THEN "On" ELSE "Off")
    ELSE (IF state = "High" THEN "Pressed" ELSE "Released")

\* Input::input_event: the event of (mode, state).
input_event(mode, state) ==
  IF mode = "Switch"
    THEN (IF state = "High" THEN "On" ELSE "Off")
    ELSE (IF state = "High" THEN "Pressed" ELSE "Released")

\* A wrong reading of tick, kept for comparison: dirty not looked at, every tick reports.
tickPolls(i) == input_event(i.mode, i.state)

\* Input::tick: None unless dirty; for a dirty Input Some(self.input_event()),
\* whatever the state was before.
tick(i) == IF ~i.dirty THEN "None" ELSE input_event(i.mode, i.state)

\* A wrong reading of DebounceLoops, kept for comparison: the upper bound off by one.
DebounceLoopsInclusive == count # 0 /\ count <= SAMPLES * 2

\* debounce(): the loop runs while count != 0 && count < SAMPLES * 2.
DebounceLoops == count # 0 /\ count < SAMPLES * 2

\* debounce(): one sample counted, +1 for High and -1 for Low.
Counted(c, l) == IF l = "High" THEN c + 1 ELSE c - 1

\* debounce(): the state stored when the loop ends.
Settled(c) == IF c = 0 THEN "Low" ELSE "High"

\* A wrong reading of DrainEnds, kept for comparison: `if let` for `while let`, one dequeue per pass.
DrainEndsAfterOne == QIsEmpty \/ dequeued > 0

\* eval(): `while let Some(p) = dequeue()` ends when dequeue returns None.
DrainEnds == QIsEmpty

\* A wrong reading of Handles, kept for comparison: has_interrupts not looked at.
HandlesAny(i) == i.reg

\* eval() and handle_interrupt: the notification is handled when the id has
\* an Input (contains_key) and that Input has interrupts (has_interrupts).
Handles(i) == i.reg /\ i.has_interrupts

\* A wrong reading of Rearmed, kept for comparison: enable_interrupt() left out.
RearmedNot(a, p) == a

\* handle_interrupt: self.input.enable_interrupt() returned Ok.
Rearmed(a, p) == [a EXCEPT ![p] = TRUE]

\* A wrong reading of Unvisited, kept for comparison: the iterator does not advance.
UnvisitedKeeps(S, p) == S

\* eval(): what is left of self.inputs.iter_mut() after it yielded p.
Unvisited(S, p) == S \ {p}

\* eval(): the event is posted when tick() gave one and there is an event loop.
Posts(ev) == ev # "None" /\ event_loop

(***************************************************************************)
(* main.rs: one InputSwitch, polled by the loop of main.                   *)
(***************************************************************************)
MCells == 0..(MAIN_Q_SIZE - 1)

MInc(i) == (i + 1) % MAIN_Q_SIZE

\* gen_irq_callback: producer.enqueue(pin).ok().unwrap();
MCallback ==
  IF MInc(mq_tail) # mq_head
    THEN /\ mq_buf' = [mq_buf EXCEPT ![mq_tail] = 1]
         /\ mq_tail' = MInc(mq_tail)
         /\ UNCHANGED mpc
    ELSE /\ mpc' = "aborted"
         /\ UNCHANGED <<mq_buf, mq_tail>>

\* InputSwitch::new: state High, not dirty, states [false; 10].
NewSwitch == [state |-> "High", dirty |-> FALSE,
              states |-> [k \in 1..STATES_LEN |-> FALSE]]

\* bool from Level (get_level().into()) and Level from bool ((count != 0).into()).
LevelBool(l) == l = "High"
BoolLevel(b) == IF b THEN "High" ELSE "Low"

\* states.rotate_right(1); states[0] = sample.
Pushed(states, sample) == <<sample>> \o SubSeq(states, 1, Len(states) - 1)

\* states.iter().fold(0, |acc, s| acc + (*s as usize))
Trues(states) == Cardinality({k \in 1..Len(states) : states[k]})

\* A wrong reading of Saturated, kept for comparison: the all-false window forgotten.
SaturatedHigh(states) == Trues(states) = Len(states)

\* count == 0 || count == self.states.len()
Saturated(states) == Trues(states) = 0 \/ Trues(states) = Len(states)

\* InputSwitch::tick on a dirty switch that read `sample`: the switch after
\* the call.
Ticked(s, sample) ==
  LET st == Pushed(s.states, sample)
      lv == BoolLevel(Trues(st) # 0)
  IN [state  |-> IF Saturated(st) THEN lv ELSE s.state,
      dirty  |-> ~Saturated(st),
      states |-> st]

\* InputSwitch::tick's return value for the same call.
TickChanged(s, sample) ==
  LET st == Pushed(s.states, sample)
  IN Saturated(st) /\ BoolLevel(Trues(st) # 0) # s.state

\* The state main() builds before its loop: InputSwitch::new(gpio1)
\* .with_interrupts(), an empty queue.
SwitchBoot ==
  /\ sw = NewSwitch
  /\ sw_armed = TRUE
  /\ mq_buf = [i \in MCells |-> Empty]
  /\ mq_head = 0
  /\ mq_tail = 0
  /\ mpc = "dequeue"
  /\ sampled = FALSE
  /\ changed = FALSE
  /\ prevState = "High"
  /\ swLast = FALSE
  /\ swRun = 0
  /\ everRun = FALSE
  /\ swHandled = FALSE

\* The manager's variables while only main.rs runs.
ManagerAbsent ==
  /\ inputs = [p \in PinIds |-> NoInput]
  /\ reported = [p \in PinIds |-> "Low"]
  /\ armed = [p \in PinIds |-> FALSE]
  /\ event_loop = FALSE
  /\ foreignCap = 0
  /\ qbuf = [i \in Cells |-> Empty]
  /\ qhead = 0
  /\ qtail = 0
  /\ pc = "idle"
  /\ cur = 0
  /\ level = "Low"
  /\ count = 0
  /\ dequeued = 0
  /\ toTick = {}
  /\ panicked = "no"
  /\ enqLog = <<>>
  /\ fifoOK = TRUE
  /\ pending = 0
  /\ drained = {}
  /\ produced = None
  /\ published = None
  /\ dbReads = 0
  /\ dbConst = TRUE
  /\ ticks = [p \in PinIds |-> 0]
  /\ runCap = 0
  /\ dbLast = "Low"
  /\ dbRun = 0
  /\ mixed = {}
  /\ ret = "none"
  /\ retPin = 0

\* The line of the switch is at either level when main() starts.
InitSwitch == SwitchBoot /\ swRaw \in Levels /\ ManagerAbsent

\* The variables of main.rs while only the manager runs.
SwitchAbsent == SwitchBoot /\ swRaw = "High"

\* An edge on the switch pin while its interrupt is armed: the driver
\* disables the interrupt and runs the callback.
SwEdge ==
  /\ mpc # "aborted"
  /\ sw_armed
  /\ sw_armed' = FALSE
  /\ MCallback
  /\ UNCHANGED <<sw, mq_head, sampled, changed, prevState, swLast, swRun,
                 everRun, swRaw, swHandled>>

\* main's loop: if let Some(_) = irq_consumer.dequeue()
\*                  { switch.handle_interrupt().unwrap(); }
MainDequeue ==
  /\ mpc = "dequeue"
  /\ IF mq_head # mq_tail
       THEN /\ mq_buf' = [mq_buf EXCEPT ![mq_head] = Empty]
            /\ mq_head' = MInc(mq_head)
            /\ sw' = [sw EXCEPT !.dirty = TRUE]
            /\ swHandled' = TRUE
            /\ \E ok \in BOOLEAN :
                 IF ok THEN sw_armed' = TRUE /\ mpc' = "tick"
                       ELSE sw_armed' = sw_armed /\ mpc' = "aborted"
       ELSE /\ mpc' = "tick"
            /\ UNCHANGED <<mq_buf, mq_head, sw, sw_armed, swHandled>>
  /\ UNCHANGED <<mq_tail, sampled, changed, prevState, swLast, swRun, everRun,
                 swRaw>>

\* main's loop: if switch.tick() { info!(...) }
MainTick ==
  /\ mpc = "tick"
  /\ mpc' = "sleep"
  /\ prevState' = sw.state
  /\ IF ~sw.dirty
       THEN /\ sampled' = FALSE
            /\ changed' = FALSE
            /\ UNCHANGED <<sw, swLast, swRun, everRun>>
       ELSE \E l \in Levels :
              LET b == LevelBool(l)
                  run == IF swRun > 0 /\ b = swLast
                           THEN Min(swRun + 1, STATES_LEN) ELSE 1
              IN /\ sw' = Ticked(sw, b)
                 /\ changed' = TickChanged(sw, b)
                 /\ sampled' = TRUE
                 /\ swLast' = b
                 /\ swRun' = run
                 /\ everRun' = (everRun \/ run = STATES_LEN)
  /\ UNCHANGED <<sw_armed, mq_buf, mq_head, mq_tail, swRaw, swHandled>>

\* main's loop: display.tick() (LedDisplay only) and the sleep of 8 ms.
MainSleep ==
  /\ mpc = "sleep"
  /\ mpc' = "dequeue"
  /\ sampled' = FALSE
  /\ changed' = FALSE
  /\ prevState' = sw.state
  /\ UNCHANGED <<sw, sw_armed, mq_buf, mq_head, mq_tail, swLast, swRun, everRun,
                 swRaw, swHandled>>

NextSwitch ==
  \/ SwEdge /\ UNCHANGED <<mvars, hvars, gvars, rvars>>
  \/ MainDequeue /\ UNCHANGED <<mvars, hvars, gvars, rvars>>
  \/ MainTick /\ UNCHANGED <<mvars, hvars, gvars, rvars>>
  \/ MainSleep /\ UNCHANGED <<mvars, hvars, gvars, rvars>>

SpecSwitch == InitSwitch /\ [][NextSwitch]_vars

(***************************************************************************)
(* Initial states: InputManager::new(), with or without with_event_loop,   *)
(* then new_switch(5, true), and in Spec new_button(6, true); pin 7 is     *)
(* either not registered or registered by new_switch(7, false).            *)
(***************************************************************************)
InitManager(withSix, cap) ==
  /\ \E l5 \in Levels, l6 \in Levels, r7 \in BOOLEAN :
       /\ inputs = [p \in PinIds |->
            IF p = 5 THEN NewInput("Switch", TRUE, l5)
            ELSE IF p = 6 /\ withSix THEN NewInput("Button", TRUE, l6)
            ELSE IF p = 7 /\ r7 THEN NewInput("Switch", FALSE, "High")
            ELSE NoInput]
       /\ reported = [p \in PinIds |-> inputs[p].state]
  /\ armed = [p \in PinIds |-> inputs[p].has_interrupts]
  /\ event_loop \in BOOLEAN
  /\ foreignCap = cap
  /\ qbuf = [i \in Cells |-> Empty]
  /\ qhead = 0
  /\ qtail = 0
  /\ pc = "idle"
  /\ cur = 0
  /\ level = "Low"
  /\ count = 0
  /\ dequeued = 0
  /\ toTick = {}
  /\ panicked = "no"
  /\ enqLog = <<>>
  /\ fifoOK = TRUE
  /\ pending = 0
  /\ drained = {}
  /\ produced = None
  /\ published = None
  /\ dbReads = 0
  /\ dbConst = TRUE
  /\ ticks = [p \in PinIds |-> 0]
  /\ dbLast = "Low"
  /\ dbRun = 0
  /\ mixed = {}
  /\ ret = "none"
  /\ retPin = 0

Init == InitManager(TRUE, MaxForeign) /\ runCap = 0 /\ SwitchAbsent

\* One Input with interrupts and any number of foreign notifications.
InitFlood == InitManager(FALSE, IRQ_CAPACITY) /\ runCap = 0 /\ SwitchAbsent

\* One Input with interrupts, one foreign notification, and the samples of
\* each debounce() recorded.
InitSamples == InitManager(FALSE, MaxForeign) /\ runCap = SAMPLES /\ SwitchAbsent

(***************************************************************************)
(* The notification context.                                               *)
(***************************************************************************)
\* An edge on a registered pin whose interrupt is armed.  The GPIO driver
\* disables the pin's interrupt when it fires (that is why handle_interrupt
\* calls enable_interrupt again), then runs the subscribed callback.
Edge(p) ==
  /\ pc # "aborted"
  /\ inputs[p].reg /\ inputs[p].has_interrupts /\ armed[p]
  /\ armed' = [armed EXCEPT ![p] = FALSE]
  /\ Callback(p)
  /\ UNCHANGED <<inputs, event_loop, qhead, cur, level, count, dequeued, toTick,
                 foreignCap, fifoOK, pending, drained, produced, published,
                 reported, dbReads, dbConst, gvars>>

\* A callback of InterruptHandler::register held outside the manager.
Foreign(p) ==
  /\ pc # "aborted"
  /\ p \in ForeignPins
  /\ ForeignWaiting < foreignCap
  /\ Callback(p)
  /\ UNCHANGED <<inputs, event_loop, armed, qhead, cur, level, count, dequeued,
                 toTick, foreignCap, fifoOK, pending, drained, produced,
                 published, reported, dbReads, dbConst, gvars>>

(***************************************************************************)
(* The poll context: InputManager::eval.                                   *)
(***************************************************************************)
EvalBegin ==
  /\ pc = "idle"
  /\ pc' = "drain"
  /\ dequeued' = 0
  /\ pending' = QLen
  /\ UNCHANGED <<inputs, event_loop, armed, qbuf, qhead, qtail, cur, level,
                 count, toTick, panicked, foreignCap, enqLog, fifoOK, drained,
                 produced, published, reported, dbReads, dbConst, gvars>>

\* The while loop ends and the for loop over the inputs starts.
DrainDone ==
  /\ pc = "drain"
  /\ DrainEnds
  /\ fifoOK' = (fifoOK /\ (QIsEmpty => enqLog = <<>>))
  /\ pc' = "tick"
  /\ toTick' = Registered
  /\ UNCHANGED <<inputs, event_loop, armed, qbuf, qhead, qtail, cur, level,
                 count, dequeued, panicked, foreignCap, enqLog, pending,
                 drained, produced, published, reported, dbReads, dbConst,
                 gvars>>

\* One turn of the while loop: dequeue p, and handle_interrupt up to the call
\* of debounce().  An id without Input is logged; an Input without interrupts
\* returns Ok(()) at once.
DrainStep ==
  /\ pc = "drain"
  /\ ~DrainEnds
  /\ LET p == Dequeued
         i == InputOf(p)
     IN /\ qbuf' = [qbuf EXCEPT ![qhead] = Empty]
        /\ qhead' = Inc(qhead)
        /\ fifoOK' = (fifoOK /\ enqLog # <<>> /\ p = Head(enqLog))
        /\ enqLog' = (IF enqLog = <<>> THEN enqLog ELSE Tail(enqLog))
        /\ pending' = (IF pending > 0 THEN pending - 1 ELSE 0)
        /\ dequeued' = Min(dequeued + 1, MaxDequeued)
        /\ drained' = drained \cup {p}
        /\ IF Handles(i)
             THEN /\ inputs' = [inputs EXCEPT ![p].dirty = TRUE]
                  /\ pc' = "debounce"
                  /\ cur' = p
                  /\ \E l \in Levels : level' = l
                  /\ count' = SAMPLES
                  /\ dbReads' = 0
                  /\ dbConst' = TRUE
             ELSE UNCHANGED <<inputs, pc, cur, level, count, dbReads, dbConst>>
  /\ UNCHANGED <<event_loop, armed, qtail, toTick, panicked, foreignCap,
                 produced, published, reported, gvars>>

\* One turn of debounce()'s loop: count the sample held, read the next one.
DebounceStep ==
  /\ pc = "debounce"
  /\ DebounceLoops
  /\ count' = Counted(count, level)
  /\ dbReads' = Min(dbReads + 1, MaxReads)
  /\ \E l \in Levels :
       /\ level' = l
       /\ dbConst' = (dbConst /\ l = level)
  /\ dbRun' = (IF dbRun > 0 /\ level = dbLast
                 THEN Min(dbRun + 1, runCap) ELSE Min(1, runCap))
  /\ dbLast' = (IF runCap > 0 THEN level ELSE dbLast)
  /\ UNCHANGED <<inputs, event_loop, armed, qbuf, qhead, qtail, pc, cur,
                 dequeued, toTick, panicked, foreignCap, enqLog, fifoOK,
                 pending, drained, produced, published, reported, ticks,
                 runCap, mixed>>

\* debounce() returns: the state is stored, and handle_interrupt ends with
\* self.input.enable_interrupt(), whose Err eval() unwraps.
DebounceReturn ==
  /\ pc = "debounce"
  /\ ~DebounceLoops
  /\ inputs' = [inputs EXCEPT ![cur].state = Settled(count)]
  /\ level' = "Low"
  /\ count' = 0
  /\ cur' = 0
  /\ dbReads' = 0
  /\ dbConst' = TRUE
  /\ mixed' = (IF runCap > 0 /\ dbRun < SAMPLES
                 THEN mixed \cup {cur} ELSE mixed \ {cur})
  /\ dbRun' = 0
  /\ dbLast' = "Low"
  /\ \E ok \in BOOLEAN :
       IF ok
         THEN /\ armed' = Rearmed(armed, cur)
              /\ pc' = "drain"
              /\ UNCHANGED panicked
         ELSE /\ panicked' = "rearm"
              /\ pc' = "aborted"
              /\ UNCHANGED armed
  /\ UNCHANGED <<event_loop, qbuf, qhead, qtail, dequeued, toTick, foreignCap,
                 enqLog, fifoOK, pending, drained, produced, published,
                 reported, ticks, runCap>>

\* One turn of the for loop over self.inputs.iter_mut(): input.tick(), and
\* the post of its event when there is an event loop.  The tuple pattern
\* runs tick() first, so dirty is cleared also without an event loop.
TickStep(p) ==
  /\ pc = "tick"
  /\ p \in toTick
  /\ toTick' = Unvisited(toTick, p)
  /\ ticks' = [ticks EXCEPT ![p] = Min(ticks[p] + 1, MaxTicks)]
  /\ mixed' = mixed \ {p}
  /\ LET ev == tick(inputs[p])
     IN /\ inputs' = [inputs EXCEPT ![p].dirty = FALSE]
        /\ produced' = (IF ev = "None" THEN None ELSE [pin |-> p, event |-> ev])
        /\ reported' = (IF ev = "None" THEN reported
                        ELSE [reported EXCEPT ![p] = inputs[p].state])
        /\ IF Posts(ev)
             THEN \E ok \in BOOLEAN :
                    IF ok
                      THEN /\ published' = produced'
                           /\ UNCHANGED <<pc, panicked>>
                      ELSE /\ published' = None
                           /\ panicked' = "post"
                           /\ pc' = "aborted"
             ELSE /\ published' = None
                  /\ UNCHANGED <<pc, panicked>>
  /\ UNCHANGED <<event_loop, armed, qbuf, qhead, qtail, cur, level, count,
                 dequeued, foreignCap, enqLog, fifoOK, pending, drained,
                 dbReads, dbConst, runCap, dbLast, dbRun>>

\* The for loop has visited every input: eval() returns.
EvalEnd ==
  /\ pc = "tick"
  /\ toTick = {}
  /\ pc' = "idle"
  /\ dequeued' = 0
  /\ drained' = {}
  /\ produced' = None
  /\ published' = None
  /\ ticks' = [p \in PinIds |-> 0]
  /\ UNCHANGED <<inputs, event_loop, armed, qbuf, qhead, qtail, cur, level,
                 count, toTick, panicked, foreignCap, enqLog, fifoOK, pending,
                 reported, dbReads, dbConst, runCap, dbLast, dbRun, mixed>>

Poll == EvalBegin \/ DrainDone \/ DrainStep \/ DebounceStep \/ DebounceReturn
          \/ (\E p \in PinIds : TickStep(p)) \/ EvalEnd

Next ==
  \/ \E p \in PinIds : Edge(p) /\ UNCHANGED <<rvars, svars>>
  \/ \E p \in PinIds : Foreign(p) /\ UNCHANGED <<rvars, svars>>
  \/ EvalBegin /\ UNCHANGED <<rvars, svars>>
  \/ DrainDone /\ UNCHANGED <<rvars, svars>>
  \/ DrainStep /\ UNCHANGED <<rvars, svars>>
  \/ DebounceStep /\ UNCHANGED <<rvars, svars>>
  \/ DebounceReturn /\ UNCHANGED <<rvars, svars>>
  \/ \E p \in PinIds : TickStep(p) /\ UNCHANGED <<rvars, svars>>
  \/ EvalEnd /\ UNCHANGED <<rvars, svars>>

Spec == Init /\ [][Next]_vars

SpecFlood == InitFlood /\ [][Next]_vars

SpecSamples == InitSamples /\ [][Next]_vars

\* The poll context runs whenever it can: eval() is called on every turn of
\* the application's loop and each of its steps is straight-line code.
FairSpec == SpecFlood /\ WF_vars(Poll /\ UNCHANGED <<rvars, svars>>)

\* The program with no callback but those with_interrupts subscribes: the
\* only caller of InterruptHandler::register in the repository.
NextOwn ==
  \/ \E p \in PinIds : Edge(p) /\ UNCHANGED <<rvars, svars>>
  \/ EvalBegin /\ UNCHANGED <<rvars, svars>>
  \/ DrainDone /\ UNCHANGED <<rvars, svars>>
  \/ DrainStep /\ UNCHANGED <<rvars, svars>>
  \/ DebounceStep /\ UNCHANGED <<rvars, svars>>
  \/ DebounceReturn /\ UNCHANGED <<rvars, svars>>
  \/ \E p \in PinIds : TickStep(p) /\ UNCHANGED <<rvars, svars>>
  \/ EvalEnd /\ UNCHANGED <<rvars, svars>>

\* new_switch(5, true), new_button(6, true) and, or not, new_switch(7, false).
InitOwn == InitManager(TRUE, 0) /\ runCap = 0 /\ SwitchAbsent

SpecOwn == InitOwn /\ [][NextOwn]_vars

(***************************************************************************)
(* Registration: InputManager::register_input, called through new_switch   *)
(* and new_button.  Specification: SpecRegister, which starts from          *)
(* InputManager::new() and registers pins, again and again.                 *)
(***************************************************************************)
Modes == {"Switch", "Button"}

\* The call of register_input that returns Err: none, or one of
\*   claim      PinDriver::input(pin)?                    (Input::new)
\*   pull       input.set_pull(Pull::Up)?                 (Input::new)
\*   type       set_interrupt_type(AnyEdge)?              (with_interrupts)
\*   subscribe  subscribe(handler.register(self.pin))?    (with_interrupts)
\*   enable     enable_interrupt()?                       (with_interrupts)
RegisterFailures == {"none", "claim", "pull", "type", "subscribe", "enable"}

\* Input::new returns Err.
NewFails(fail) == fail \in {"claim", "pull"}

\* Input::with_interrupts returns Err.
InterruptsFail(fail) == fail \in {"type", "subscribe", "enable"}

\* register_input returns Err: with_interrupts is called only when asked for.
RegisterFails(with_interrupts, fail) ==
  NewFails(fail) \/ (with_interrupts /\ InterruptsFail(fail))

\* A wrong reading of Inserted, kept for comparison: the insert done before the `?`s.
InsertedFirst(reg, p, input, failed) == [reg EXCEPT ![p] = input]

\* register_input: self.inputs.insert(pin, input) is reached only when no `?`
\* returned before it; insert replaces the Input the id had.
Inserted(reg, p, input, failed) ==
  IF failed THEN reg ELSE [reg EXCEPT ![p] = input]

\* register_input(pin, mode, with_interrupts), l being the level get_level()
\* reads in Input::new.  An Input built and then dropped by a `?` takes its
\* pin driver with it, which leaves the pin's interrupt disabled.
Register(p, mode, with_interrupts, l, fail) ==
  LET failed == RegisterFails(with_interrupts, fail)
      input  == NewInput(mode, with_interrupts, l)
  IN /\ pc = "idle"
     /\ inputs' = Inserted(inputs, p, input, failed)
     /\ ret' = (IF failed THEN "Err" ELSE "Ok")
     /\ retPin' = p
     /\ armed' = (IF fail = "claim" THEN armed
                  ELSE [armed EXCEPT ![p] = ~failed /\ with_interrupts])
     /\ reported' = (IF failed THEN reported ELSE [reported EXCEPT ![p] = l])
     /\ UNCHANGED <<event_loop, qbuf, qhead, qtail, pc, cur, level, count,
                    dequeued, toTick, panicked, foreignCap, enqLog, fifoOK,
                    pending, drained, produced, published, dbReads, dbConst,
                    gvars>>

InitRegister == ManagerAbsent /\ SwitchAbsent

NextRegister ==
  \E p \in PinIds, mode \in Modes, with_interrupts \in BOOLEAN, l \in Levels,
     fail \in RegisterFailures :
       Register(p, mode, with_interrupts, l, fail) /\ UNCHANGED svars

SpecRegister == InitRegister /\ [][NextRegister]_vars

(***************************************************************************)
(* Claims about the debounce of main.rs (SpecSwitch).                      *)
(***************************************************************************)
\* The tick of main's loop has just run and read a sample.
JustSampled == mpc = "sleep" /\ sampled

\* C1: while the samples read on successive ticks are a run of the level
\* opposite to the confirmed one, no event is emitted on the first
\* STATES_LEN - 1 ticks of the run and exactly one is, on the tick that reads
\* sample number STATES_LEN of the run: a tick that read a sample opposite to
\* the confirmed level returns true exactly when that sample completes a run
\* of STATES_LEN equal samples.
C1_EventOnNthSample ==
  (JustSampled /\ BoolLevel(swLast) # prevState)
    => (changed <=> swRun = STATES_LEN)

\* C2: a sequence of samples without a run of STATES_LEN equal samples emits
\* no event: a tick returns true only after such a run has been read.
C2_NoEventWithoutRun == (JustSampled /\ changed) => everRun

\* C16: a dirty switch whose line reads one constant level on every tick is
\* resolved within STATES_LEN ticks, with no further notification: the tick
\* that reads the sample completing STATES_LEN equal samples in a row leaves
\* the switch not dirty and confirmed at that level, and returns true exactly
\* when that level differs from the level confirmed before.
C16_BoundedResolution ==
  (JustSampled /\ swRun = STATES_LEN)
    => /\ ~sw.dirty
       /\ sw.state = BoolLevel(swLast)
       /\ changed <=> (prevState # BoolLevel(swLast))

\* C16's case: the tick that read the last of STATES_LEN High samples in a
\* row resolved a switch confirmed Low.
C16_Witness ==
  /\ JustSampled /\ swRun = STATES_LEN
  /\ swLast /\ prevState = "Low"
  /\ changed /\ ~sw.dirty

\* C20: a new Input is confirmed at the raw level its line had when it was
\* created and is not dirty, and nothing is emitted for it before a
\* notification for it has been handled.
C20_CreatedFromHardware ==
  ~swHandled => (sw.state = swRaw /\ ~sw.dirty /\ ~changed)

(***************************************************************************)
(* Claims about the InputManager (Spec, SpecFlood, FairSpec).              *)
(***************************************************************************)
\* The step is a TickStep whose tick() returned an event.
Emits == pc = "tick" /\ toTick' # toTick /\ produced' # None

\* C3: an event is emitted for an Input only when its level differs from the
\* level the Input was confirmed at before (the level of its previous event,
\* or of its registration): no two consecutive events of a pin carry the same
\* level.
C3_NoRepeatedLevel ==
  [][Emits => reported'[produced'.pin] # reported[produced'.pin]]_vars

\* C4: the ids enqueued with success come out of dequeue() in the order they
\* went in, and dequeue() returns None exactly when none is left: the ring,
\* read from head to tail, is the log of the enqueued ids not yet dequeued,
\* and every dequeue() so far returned the head of that log.
C4_QueueFifo == fifoOK /\ QContents = enqLog

\* C4's case: the drain has dequeued ids of a queue that wrapped around the
\* ring and still holds the ids of two different pins.
C4_Witness ==
  /\ pc = "drain" /\ dequeued >= 2
  /\ qtail < qhead
  /\ QLen >= 3
  /\ \E i, j \in Cells : qbuf[i] = 5 /\ qbuf[j] = 7

\* The step is a callback run for some pin.
Notifies == (\E p \in PinIds : Edge(p)) \/ (\E p \in PinIds : Foreign(p))

\* C5: an enqueue on a full queue drops the new id and nothing else: the
\* queue is as before and the process goes on (no panic, no abort).
C5_FullQueueDrops ==
  [][(QFull /\ Notifies)
       => (QContents' = QContents /\ panicked' = "no" /\ pc' # "aborted")]_vars

\* The event the classification law gives for (mode, level).
LawEvent(mode, l) ==
  CASE mode = "Switch" /\ l = "High" -> "On"
    [] mode = "Switch" /\ l = "Low"  -> "Off"
    [] mode = "Button" /\ l = "High" -> "Pressed"
    [] mode = "Button" /\ l = "Low"  -> "Released"

\* C6: the event emitted is the one the law gives for the Input's mode and
\* settled level: On/Off for a Switch, Pressed/Released for a Button.
C6_Classification ==
  produced # None =>
    LET i == inputs[produced.pin]
    IN /\ produced.event = LawEvent(i.mode, i.state)
       /\ i.mode = "Switch" => produced.event \in {"On", "Off"}
       /\ i.mode = "Button" => produced.event \in {"Pressed", "Released"}

\* C6's case: the Button on pin 6 settled Low and its tick emitted.
C6_Witness == produced = [pin |-> 6, event |-> "Released"]

\* C7: once a pass ticks, every entry the queue held when the pass began has
\* been dequeued, and every Input with interrupts whose id the pass dequeued
\* is dirty until its own tick has run.
C7_DrainThenTick ==
  pc = "tick" =>
    /\ pending = 0
    /\ \A p \in drained \cap PinIds :
         (inputs[p].reg /\ inputs[p].has_interrupts /\ p \in toTick)
           => inputs[p].dirty

\* C7's case: pins 5 and 6 were both dequeued by this pass, both are dirty
\* and no Input has been ticked yet.
C7_Witness ==
  /\ pc = "tick" /\ toTick = Registered
  /\ {5, 6} \subseteq drained
  /\ inputs[5].dirty /\ inputs[6].dirty

\* C8: every event a tick produced reached the event boundary, paired with
\* the pin of the Input that produced it.
C8_EventsDelivered == produced # None => published = produced

C10_NeverTerminates == panicked = "no" /\ pc # "aborted"

\* The step is the callback of a registered pin's edge.
EdgeNotifies == \E p \in PinIds : Edge(p)

\* C13: in every pass each registered Input's tick() runs exactly once, after
\* the drain, and an Input gives at most one event to the pass: no tick() has
\* run while the pass drains, none runs twice, the event at hand comes from
\* its Input's one tick(), and when the for loop is over every registered
\* Input has been ticked once.
C13_TickedOnce ==
  /\ \A p \in PinIds : ticks[p] <= 1 /\ (ticks[p] = 1 => inputs[p].reg)
  /\ pc \in {"idle", "drain", "debounce"} => \A p \in PinIds : ticks[p] = 0
  /\ produced # None => ticks[produced.pin] = 1
  /\ (pc = "tick" /\ toTick = {}) => \A p \in Registered : ticks[p] = 1

\* C13's case: the for loop of a pass over three Inputs is over and its last
\* tick() gave an event.
C13_Witness ==
  /\ pc = "tick" /\ toTick = {}
  /\ Registered = {5, 6, 7}
  /\ produced # None

\* C11: a notification dropped on a full queue is recoverable: the step that
\* drops it leaves the queue's consumer running, so that once the queue has
\* room a later edge of the pin is enqueued and handled.
C11_OverflowRecoverable ==
  [][(QFull /\ EdgeNotifies) => (pc' # "aborted" /\ panicked' = "no")]_vars

(***************************************************************************)
(* Claims about registration (SpecRegister).                               *)
(***************************************************************************)
\* C12: registration is all-or-nothing.  A register_input that returns Err
\* leaves the registry exactly as it was; one that returns Ok leaves the
\* registry with the new Input (registered, not dirty) under the pin's id and
\* every other id as it was.
C12_RegistrationAtomic ==
  [][/\ ret' = "Err" => inputs' = inputs
     /\ ret' = "Ok" =>
          /\ inputs'[retPin'].reg /\ ~inputs'[retPin'].dirty
          /\ \A q \in PinIds \ {retPin'} : inputs'[q] = inputs[q]]_vars

\* C12's case: the registration of pin 5 with interrupts failed after
\* pin 6 had been registered; pin 5 has no Input.
C12_Witness ==
  /\ ret = "Err" /\ retPin = 5
  /\ ~inputs[5].reg
  /\ inputs[6].reg /\ inputs[6].has_interrupts

(***************************************************************************)
(* Claims about the Input of inputs.rs with its samples recorded           *)
(* (SpecSamples).                                                          *)
(***************************************************************************)
\* The step is the turn of the drain that dequeues the id p and handles it.
HandlesNotification(p) == pc = "drain" /\ qhead' # qhead /\ Dequeued = p

\* C14: dirty goes from false to true only in the step that handles a
\* notification for the Input, and from true to false only in a tick that
\* finds the last SAMPLES samples taken for the Input unanimous.
C14_DirtyDiscipline ==
  [][\A p \in PinIds :
       /\ (~inputs[p].dirty /\ inputs'[p].dirty) => HandlesNotification(p)
       /\ (inputs[p].dirty /\ ~inputs'[p].dirty)
            => (pc = "tick" /\ p \notin mixed)]_vars

\* C15: the confirmed level (Input.state) changes only inside a tick, and
\* only to the level of SAMPLES unanimous samples; the handling of a
\* notification leaves it as it is.
C15_ConfirmedDiscipline ==
  [][\A p \in PinIds :
       inputs'[p].state # inputs[p].state
         => (pc = "tick" /\ p \notin mixed')]_vars

(***************************************************************************)
(* Claims about the handling of notifications (Spec, SpecSamples).         *)
(***************************************************************************)
\* The step is the turn of the drain that dequeues the id of an Input
\* registered without interrupts.
HandlesWithoutInterrupts ==
  /\ pc = "drain" /\ qhead' # qhead
  /\ InputOf(Dequeued).reg /\ ~InputOf(Dequeued).has_interrupts

Queued(p) == \E k \in 1..QLen : QContents[k] = p

\* C18: handling a notification for an Input with interrupts sets dirty and
\* re-arms the pin's interrupt in the same pass: while the pass drains, every
\* such Input it dequeued is dirty, and once handle_interrupt has returned
\* its interrupt is armed, or has fired again since and the new notification
\* waits in the queue.
C18_RearmedInPass ==
  \A p \in drained \cap PinIds :
    (Handles(inputs[p]) /\ pc # "aborted")
      => /\ pc \in {"drain", "debounce"} => inputs[p].dirty
         /\ cur # p => (armed[p] \/ Queued(p))

\* C18's case: the pass handled the notifications of pins 5 and 6; pin 5 is
\* armed again, pin 6 was armed again, has fired since and is queued anew.
C18_Witness ==
  /\ pc = "tick" /\ {5, 6} \subseteq drained
  /\ armed[5]
  /\ ~armed[6] /\ Queued(6)

\* The step is the turn of the drain that dequeues an id without Input.
DequeuesUnknown == pc = "drain" /\ qhead' # qhead /\ Dequeued \notin Registered

\* C19: a dequeued id with no matching Input is skipped: the step changes no
\* Input and no interrupt and the drain goes on; the pass still dequeues
\* every entry it found and ticks every registered Input.
C19_UnknownPinSkipped ==
  /\ []((pc = "tick" /\ drained \ Registered # {})
          => /\ pending = 0
             /\ toTick = {} => \A p \in Registered : ticks[p] = 1)
  /\ [][DequeuesUnknown
          => /\ inputs' = inputs
             /\ armed' = armed
             /\ pc' = "drain" /\ panicked' = "no"]_vars

\* C19's case: the pass dequeued the unknown id 7 and the id 5, and its for
\* loop is over.
C19_Witness ==
  /\ pc = "tick" /\ toTick = {}
  /\ ~inputs[7].reg /\ drained = {5, 7}
  /\ ticks[5] = 1

(***************************************************************************)
(* Claims about the two contexts sharing the queue (SpecFlood).            *)
(***************************************************************************)
\* C21: whatever the interleaving of the callbacks' enqueues with the pass's
\* dequeues, no id is lost or duplicated and the order is kept: an enqueue
\* appends its id to the queue and to nothing else, leaving the consumer's
\* index and every Input alone; a dequeue hands the pass the oldest id and
\* removes exactly that one; no other step changes the queue; and an Input
\* changes only in a step of the poll context.
C21_InterleavedQueue ==
  [][/\ qtail' # qtail
          => /\ qhead' = qhead /\ inputs' = inputs
             /\ \E p \in PinIds : /\ QContents' = Append(QContents, p)
                                  /\ enqLog' = Append(enqLog, p)
     /\ qhead' # qhead
          => /\ qtail' = qtail /\ QContents # <<>>
             /\ QContents' = Tail(QContents)
             /\ enqLog' = Tail(enqLog)
             /\ drained' = drained \cup {Head(QContents)}
     /\ (qtail' = qtail /\ qhead' = qhead)
          => (QContents' = QContents /\ enqLog' = enqLog)
     /\ inputs' # inputs
          => (pc \in {"drain", "debounce", "tick"} /\ qtail' = qtail)]_vars

\* C21's case: the pass has dequeued every entry it found when it began and
\* at least two ids, and the queue holds entries enqueued since, while the
\* pass was draining or debouncing.
C21_Witness ==
  /\ pc = "drain" /\ pending = 0 /\ dequeued >= 2
  /\ QLen >= 2

(***************************************************************************)
(* Claims about the counting debounce of inputs.rs (SpecSamples).          *)
(***************************************************************************)
\* C22: when debounce() returns, the last SAMPLES samples it counted were
\* all of one level, and the state it stores is that level.
C22_CountedRunOnReturn ==
  (pc = "debounce" /\ ~DebounceLoops)
    => (dbRun >= SAMPLES /\ Settled(count) = dbLast)

(***************************************************************************)
(* Claims about the program with its own callbacks only (SpecOwn).         *)
(***************************************************************************)
\* C23: an Input registered without interrupts is never polled: no
\* notification for it is ever in the queue or handled, it is never dirty,
\* its confirmed level stays the one of its registration, and no pass has an
\* event of it.
C23_NoInterruptsNeverPolled ==
  \A p \in PinIds :
    (inputs[p].reg /\ ~inputs[p].has_interrupts)
      => /\ ~Queued(p) /\ p \notin drained /\ cur # p
         /\ ~armed[p]
         /\ ~inputs[p].dirty
         /\ inputs[p].state = reported[p]
         /\ produced.pin # p

\* C23's case: in a pass that handled the notifications of pins 5 and 6,
\* pin 7, registered without interrupts, has been ticked and then another
\* Input's tick gave an event.
C23_Witness ==
  /\ inputs[7].reg /\ ~inputs[7].has_interrupts
  /\ pc = "tick" /\ ticks[7] = 1
  /\ drained = {5, 6}
  /\ produced # None

====
